---- MODULE Spec2Model ----
(***************************************************************************)
(* parse_notes of tools.py: the text of a session-notes document is split  *)
(* before every "Client:" marker, and each block is searched with four     *)
(* independent regular expressions.  Strings are sequences of one-character*)
(* strings; every regular expression is modelled by the match the          *)
(* backtracking matcher of Python's re module returns (leftmost start,     *)
(* greedy quantifiers, first alternative first).                           *)
(***************************************************************************)
EXTENDS Integers, Sequences, FiniteSets, TLC

VARIABLES text, fed, blocks, idx, block, client_name, results, pc

vars == <<text, fed, blocks, idx, block, client_name, results, pc>>

(* ------------------------------ bounds -------------------------------- *)

\* number of chunks the input text is assembled from
MaxPieces == 4

(* --------------------------- characters ------------------------------- *)

\* the characters str.strip() removes and \s matches, as far as the inputs use them
Whitespace == {" ", "\n", "\t"}

Digits == {"0", "1", "2", "3", "4", "5", "6", "7", "8", "9"}

ToLower ==
    ("A" :> "a") @@ ("B" :> "b") @@ ("C" :> "c") @@ ("D" :> "d") @@ ("E" :> "e") @@
    ("F" :> "f") @@ ("G" :> "g") @@ ("H" :> "h") @@ ("I" :> "i") @@ ("J" :> "j") @@
    ("K" :> "k") @@ ("L" :> "l") @@ ("M" :> "m") @@ ("N" :> "n") @@ ("O" :> "o") @@
    ("P" :> "p") @@ ("Q" :> "q") @@ ("R" :> "r") @@ ("S" :> "s") @@ ("T" :> "t") @@
    ("U" :> "u") @@ ("V" :> "v") @@ ("W" :> "w") @@ ("X" :> "x") @@ ("Y" :> "y") @@
    ("Z" :> "z")

\* re.IGNORECASE compares characters after case folding
Fold(c) == IF c \in DOMAIN ToLower THEN ToLower[c] ELSE c

\* "Client:"
ClientMarker == <<"C", "l", "i", "e", "n", "t", ":">>
\* "Rendering Provider:"
ProviderMarker ==
    <<"R", "e", "n", "d", "e", "r", "i", "n", "g", " ",
      "P", "r", "o", "v", "i", "d", "e", "r", ":">>
\* "Date:"
DateMarker == <<"D", "a", "t", "e", ":">>
\* "Session Time:"
SessionMarker == <<"S", "e", "s", "s", "i", "o", "n", " ", "T", "i", "m", "e", ":">>

(* --------------------------- string helpers --------------------------- *)

\* the character at 1-based position q, "" past either end
CharAt(s, q) == IF q \in 1..Len(s) THEN s[q] ELSE ""

\* the literal lit stands in s at position q
StartsWithAt(s, q, lit) ==
    /\ q >= 1
    /\ q + Len(lit) - 1 <= Len(s)
    /\ \A k \in 1..Len(lit) : s[q + k - 1] = lit[k]

\* the same under re.IGNORECASE
StartsWithAtIC(s, q, lit) ==
    /\ q >= 1
    /\ q + Len(lit) - 1 <= Len(s)
    /\ \A k \in 1..Len(lit) : Fold(s[q + k - 1]) = Fold(lit[k])

\* a greedy \s* from q: the position after the longest run of whitespace
RECURSIVE SkipSpaces(_, _)
SkipSpaces(s, q) ==
    IF q <= Len(s) /\ s[q] \in Whitespace THEN SkipSpaces(s, q + 1) ELSE q

\* a greedy [^...]* from q: the position of the first character in stop, or the end
RECURSIVE SkipUntil(_, _, _)
SkipUntil(s, q, stop) ==
    IF q <= Len(s) /\ s[q] \notin stop THEN SkipUntil(s, q + 1, stop) ELSE q

\* the last position of s that holds no whitespace, 0 when there is none
RECURSIVE LastNonSpace(_, _)
LastNonSpace(s, q) ==
    IF q >= 1 /\ s[q] \in Whitespace THEN LastNonSpace(s, q - 1) ELSE q

strip(s) ==
    LET a == SkipSpaces(s, 1)
        b == LastNonSpace(s, Len(s))
    IN  IF a > b THEN <<>> ELSE SubSeq(s, a, b)

Min(S) == CHOOSE x \in S : \A y \in S : x <= y
Max(S) == CHOOSE x \in S : \A y \in S : x >= y

(* ------------------------------ re.split ------------------------------ *)

\* re.split on the empty matches of (?=Client:): a cut before every marker,
\* the piece before the first cut kept even when it is empty
\* a split that ignores empty matches, as re.split did before Python 3.7
re_split_unsplit(t) == <<t>>

RECURSIVE SplitAt(_, _, _)
SplitAt(t, start, i) ==
    IF i > Len(t) THEN <<SubSeq(t, start, Len(t))>>
    ELSE IF StartsWithAt(t, i, ClientMarker)
         THEN <<SubSeq(t, start, i - 1)>> \o SplitAt(t, i, i + 1)
         ELSE SplitAt(t, start, i + 1)

re_split(t) == SplitAt(t, 1, 1)

(* ------------------------------ re.search ----------------------------- *)

\* a match object: ok, whether group 1 took part, and group 1 as [from, to)
NoMatch == [ok |-> FALSE, has |-> FALSE, from |-> 0, to |-> 0]

Group1(from, to) == [ok |-> TRUE, has |-> TRUE, from |-> from, to |-> to]

group(b, m) == SubSeq(b, m.from, m.to - 1)

\* Client:\s*([^\n,]+) tried at start s. \s* is greedy and gives characters
\* back one at a time until the group finds a first character.
ClientMatchAt(b, s) ==
    IF ~StartsWithAt(b, s, ClientMarker) THEN NoMatch
    ELSE LET p == s + Len(ClientMarker)
             e == SkipSpaces(b, p)
             starts == {j \in p..e : j <= Len(b) /\ b[j] \notin {"\n", ","}}
         IN  IF starts = {} THEN NoMatch
             ELSE Group1(Max(starts), SkipUntil(b, Max(starts), {"\n", ","}))

\* Rendering Provider:\s*([^\n]+) tried at start s
ProviderMatchAt(b, s) ==
    IF ~StartsWithAt(b, s, ProviderMarker) THEN NoMatch
    ELSE LET p == s + Len(ProviderMarker)
             e == SkipSpaces(b, p)
             starts == {j \in p..e : j <= Len(b) /\ b[j] # "\n"}
         IN  IF starts = {} THEN NoMatch
             ELSE Group1(Max(starts), SkipUntil(b, Max(starts), {"\n"}))

\* [0-9]{n} at q
DigitsAt(b, q, n) == \A k \in 0..(n - 1) : CharAt(b, q + k) \in Digits

\* [0-9]{4}/[0-9]{2}/[0-9]{2} at q
DateShapeAt(b, q) ==
    /\ DigitsAt(b, q, 4)
    /\ CharAt(b, q + 4) = "/"
    /\ DigitsAt(b, q + 5, 2)
    /\ CharAt(b, q + 7) = "/"
    /\ DigitsAt(b, q + 8, 2)

\* Date:\s*([0-9]{4}/[0-9]{2}/[0-9]{2}) tried at start s
DateMatchAt(b, s) ==
    IF ~StartsWithAt(b, s, DateMarker) THEN NoMatch
    ELSE LET e == SkipSpaces(b, s + Len(DateMarker))
         IN  IF DateShapeAt(b, e) THEN Group1(e, e + 10) ELSE NoMatch

\* [0-9]{1,2}:[0-9]{2} at q: the position after it, 0 when it does not match
TimeEnd(b, q) ==
    IF DigitsAt(b, q, 2) /\ CharAt(b, q + 2) = ":" /\ DigitsAt(b, q + 3, 2) THEN q + 5
    ELSE IF DigitsAt(b, q, 1) /\ CharAt(b, q + 1) = ":" /\ DigitsAt(b, q + 2, 2) THEN q + 4
    ELSE 0

\* (?:AM|PM)? at q under IGNORECASE: the position after it
MeridiemEnd(b, q) ==
    IF StartsWithAtIC(b, q, <<"A", "M">>) \/ StartsWithAtIC(b, q, <<"P", "M">>)
    THEN q + 2 ELSE q

\* the time range of the Session Time pattern at q: the position after it, 0
\* when it does not match. The closing \s*(?:AM|PM)? is greedy and nothing
\* follows it in the pattern, so the whitespace it takes is never given back.
RangeEnd(b, q) ==
    LET t1 == TimeEnd(b, q)
        d  == SkipSpaces(b, MeridiemEnd(b, SkipSpaces(b, t1)))
        t2 == TimeEnd(b, SkipSpaces(b, d + 1))
    IN  IF t1 = 0 \/ CharAt(b, d) # "-" \/ t2 = 0 THEN 0
        ELSE MeridiemEnd(b, SkipSpaces(b, t2))

\* Session Time:\s*(?:(range)|-)? with re.IGNORECASE tried at start s: the
\* optional group lets the pattern match at every marker
SessionMatchAt(b, s) ==
    IF ~StartsWithAtIC(b, s, SessionMarker) THEN NoMatch
    ELSE LET e == SkipSpaces(b, s + Len(SessionMarker))
             r == RangeEnd(b, e)
         IN  IF r # 0 THEN Group1(e, r)
             ELSE [ok |-> TRUE, has |-> FALSE, from |-> 0, to |-> 0]

\* the four patterns, named after the field they extract, tried at start s
MatchAt(pattern, b, s) ==
    CASE pattern = "Client"            -> ClientMatchAt(b, s)
      [] pattern = "RenderingProvider" -> ProviderMatchAt(b, s)
      [] pattern = "Date"              -> DateMatchAt(b, s)
      [] pattern = "SessionTime"       -> SessionMatchAt(b, s)

\* re.search: the match at the leftmost start where the pattern matches
re_search(pattern, b) ==
    LET hits == {s \in 1..Len(b) : MatchAt(pattern, b, s).ok}
    IN  IF hits = {} THEN NoMatch ELSE MatchAt(pattern, b, Min(hits))

(* ------------------------- the four fields ---------------------------- *)

\* the captured name without .strip()
ClientOfUnstripped(b) ==
    LET m == re_search("Client", b)
    IN  IF m.ok THEN group(b, m) ELSE <<>>

\* client_match.group(1).strip() if client_match else ""
ClientOf(b) ==
    LET m == re_search("Client", b)
    IN  IF m.ok THEN strip(group(b, m)) ELSE <<>>

\* provider_match.group(1).strip() if provider_match else ""
ProviderOf(b) ==
    LET m == re_search("RenderingProvider", b)
    IN  IF m.ok THEN strip(group(b, m)) ELSE <<>>

\* date_match.group(1) if date_match else ""
DateOf(b) ==
    LET m == re_search("Date", b)
    IN  IF m.ok THEN group(b, m) ELSE <<>>

\* group(1) of the Session Time match, "" when the group is None or nothing matched
SessionTimeOf(b) ==
    LET m == re_search("SessionTime", b)
    IN  IF m.ok /\ m.has THEN group(b, m) ELSE <<>>

\* the dict appended for a block whose client name is c
Record(b, c) ==
    [Client            |-> c,
     RenderingProvider |-> ProviderOf(b),
     Date              |-> DateOf(b),
     SessionTime       |-> SessionTimeOf(b)]

\* the loop without its "if not client_name: continue"
HasClientAlways(c) == TRUE

\* "if not client_name: continue" lets through the non-empty names
HasClient(c) == c # <<>>

\* an append that drops a record equal to one already collected
AppendUnique(rs, r) == IF \E k \in 1..Len(rs) : rs[k] = r THEN rs ELSE Append(rs, r)

\* results.append(...)
AppendRecord(rs, r) == Append(rs, r)

\* one pass of the loop body over a raw block: the records it adds
BlockResult(raw) ==
    LET b == strip(raw)
    IN  IF b = <<>> THEN <<>>
        ELSE IF ~HasClient(ClientOf(b)) THEN <<>>
        ELSE AppendRecord(<<>>, Record(b, ClientOf(b)))

RECURSIVE ParseBlocks(_)
ParseBlocks(bs) ==
    IF bs = <<>> THEN <<>> ELSE BlockResult(Head(bs)) \o ParseBlocks(Tail(bs))

\* parse_notes as a function of its argument
parse_notes(t) == ParseBlocks(re_split(t))

(* ------------------------- the input chunks --------------------------- *)

\* str(page_num + 1) for the single-digit page numbers
PageNumber(n) == <<"0", "1", "2", "3", "4", "5", "6", "7", "8", "9">>[n + 1]

\* the separator line pdf_bytes_to_text writes before the text of page page_num
PageHeader(page_num) ==
    <<"-", "-", "-", " ", "P", "a", "g", "e", " ">>
        \o <<PageNumber(page_num + 1)>> \o <<" ", "-", "-", "-", "\n">>

\* "Date: 2024/01/15"
DateLine == DateMarker \o <<" ", "2", "0", "2", "4", "/", "0", "1", "/", "1", "5">>

\* chunks of a document of client entries
Pieces ==
    { ClientMarker,
      ClientMarker \o <<" ", "A", " ", ",">>,
      <<",">>,
      <<"\n">>,
      <<"5">>,
      <<"\t">>,
      DateLine,
      ProviderMarker }

\* chunks of the body of one client entry, page separator included
FieldPieces ==
    { ClientMarker \o <<" ", "A", "\n">>,
      ProviderMarker,
      DateLine,
      SessionMarker,
      <<" ", "9", ":", "0", "0", " ", "-", " ", "1", "0", ":", "0", "0">>,
      <<" ", "p", "m">>,
      <<"-">>,
      <<"5">>,
      <<"\n">>,
      PageHeader(0) }

(* --------------------------- the machine ------------------------------ *)

Init ==
    /\ text = <<>>
    /\ fed = 0
    /\ blocks = <<>>
    /\ idx = 0
    /\ block = <<>>
    /\ client_name = <<>>
    /\ results = <<>>
    /\ pc = "input"

\* the document grows by one chunk
Feed(p) ==
    /\ pc = "input"
    /\ fed < MaxPieces
    /\ text' = text \o p
    /\ fed' = fed + 1
    /\ UNCHANGED <<blocks, idx, block, client_name, results, pc>>

\* parse_notes is entered: the split, and the empty result list
Split ==
    /\ pc = "input"
    /\ blocks' = re_split(text)
    /\ results' = <<>>
    /\ idx' = 1
    /\ pc' = "loop"
    /\ UNCHANGED <<text, fed, block, client_name>>

\* an iteration whose block is empty after strip(): client_name is not assigned
SkipEmpty ==
    /\ pc = "loop"
    /\ idx <= Len(blocks)
    /\ strip(blocks[idx]) = <<>>
    /\ block' = strip(blocks[idx])
    /\ idx' = idx + 1
    /\ UNCHANGED <<text, fed, blocks, client_name, results, pc>>

\* an iteration whose block has no client name
SkipNoClient ==
    /\ pc = "loop"
    /\ idx <= Len(blocks)
    /\ strip(blocks[idx]) # <<>>
    /\ block' = strip(blocks[idx])
    /\ client_name' = ClientOf(block')
    /\ ~HasClient(client_name')
    /\ idx' = idx + 1
    /\ UNCHANGED <<text, fed, blocks, results, pc>>

\* an iteration that appends a record
Emit ==
    /\ pc = "loop"
    /\ idx <= Len(blocks)
    /\ strip(blocks[idx]) # <<>>
    /\ block' = strip(blocks[idx])
    /\ client_name' = ClientOf(block')
    /\ HasClient(client_name')
    /\ results' = AppendRecord(results, Record(block', client_name'))
    /\ idx' = idx + 1
    /\ UNCHANGED <<text, fed, blocks, pc>>

\* the loop is over: return results
Return ==
    /\ pc = "loop"
    /\ idx > Len(blocks)
    /\ pc' = "done"
    /\ UNCHANGED <<text, fed, blocks, idx, block, client_name, results>>

Next ==
    \/ \E p \in Pieces : Feed(p)
    \/ Split
    \/ SkipEmpty
    \/ SkipNoClient
    \/ Emit
    \/ Return

Spec == Init /\ [][Next]_vars

NextFields ==
    \/ \E p \in FieldPieces : Feed(p)
    \/ Split
    \/ SkipEmpty
    \/ SkipNoClient
    \/ Emit
    \/ Return

SpecFields == Init /\ [][NextFields]_vars

(* ===================== properties of parse_notes ====================== *)

\* the loop has run at least once: block holds the stripped block it ran on
JustRan == pc \in {"loop", "done"} /\ idx > 1

\* the last iteration appended a record (client_name is assigned only on a
\* non-empty block)
Emitted == JustRan /\ block # <<>> /\ client_name # <<>>

LastRecord == results[Len(results)]

Occurs(s, lit) == \E q \in 1..Len(s) : StartsWithAt(s, q, lit)

FirstOcc(s, lit) == Min({q \in 1..Len(s) : StartsWithAt(s, q, lit)})

Count(s, lit) == Cardinality({q \in 1..Len(s) : StartsWithAt(s, q, lit)})

\* the text from position p up to the next newline
RestOfLine(s, p) == SubSeq(s, p, SkipUntil(s, p, {"\n"}) - 1)

InsertAt(t, p, x) == SubSeq(t, 1, p - 1) \o x \o SubSeq(t, p, Len(t))

LineStarts(t) == {p \in 1..(Len(t) + 1) : p = 1 \/ t[p - 1] = "\n"}

(* ------------------------------- C1 ----------------------------------- *)

\* the text between the Client: marker and the first following newline or
\* comma, trimmed
ClientOnMarkerLine(b) ==
    LET p == FirstOcc(b, ClientMarker) + Len(ClientMarker)
    IN  strip(SubSeq(b, p, SkipUntil(b, p, {"\n", ","}) - 1))

\* C1: a Block that yields a Record has as Client the trimmed text between
\* its Client: marker and the first following newline or comma, which is not
\* empty; a Block where that text is empty yields no Record.
C1_ClientIsTextOnMarkerLine ==
    (JustRan /\ Occurs(block, ClientMarker)) =>
        /\ Emitted => /\ LastRecord.Client = ClientOnMarkerLine(block)
                      /\ LastRecord.Client # <<>>
        /\ ClientOnMarkerLine(block) = <<>> => ~Emitted

(* ------------------------------- C2 ----------------------------------- *)

\* H:MM[ AM|PM] - H:MM[ AM|PM] at q, ending with its last time or meridiem:
\* the position after it, 0 when there is no such token
RangeTokenEnd(b, q) ==
    LET t1 == TimeEnd(b, q)
        m1 == MeridiemEnd(b, SkipSpaces(b, t1))
        d  == IF m1 > SkipSpaces(b, t1) THEN SkipSpaces(b, m1) ELSE SkipSpaces(b, t1)
        t2 == TimeEnd(b, SkipSpaces(b, d + 1))
        m2 == MeridiemEnd(b, SkipSpaces(b, t2))
    IN  IF t1 = 0 \/ CharAt(b, d) # "-" \/ t2 = 0 THEN 0
        ELSE IF m2 > SkipSpaces(b, t2) THEN m2 ELSE t2

\* C2: in a Block that yields a Record, a time range after Session Time: and
\* optional whitespace is the Session Time, verbatim and with no whitespace at
\* either end; a bare "-" or nothing after the marker gives "".
C2_SessionTimeIsTheRange ==
    (Emitted /\ Occurs(block, SessionMarker)) =>
        LET e == SkipSpaces(block, FirstOcc(block, SessionMarker) + Len(SessionMarker))
            r == RangeTokenEnd(block, e)
        IN  /\ r # 0 => LastRecord.SessionTime = SubSeq(block, e, r - 1)
            /\ LastRecord.SessionTime = strip(LastRecord.SessionTime)
            /\ ( \/ e > Len(block)
                 \/ /\ CharAt(block, e) = "-"
                    /\ CharAt(block, e + 1) \in Whitespace \cup {""} )
                  => LastRecord.SessionTime = <<>>

(* ------------------------------- C3 ----------------------------------- *)

\* C3: in a Block that yields a Record and holds Rendering Provider:, the
\* Rendering Provider is the trimmed rest of the line of the first marker,
\* never text of a later line.
C3_ProviderIsRestOfLine ==
    (Emitted /\ Occurs(block, ProviderMarker)) =>
        LastRecord.RenderingProvider =
            strip(RestOfLine(block, FirstOcc(block, ProviderMarker) + Len(ProviderMarker)))

(* ------------------------------- C4 ----------------------------------- *)

\* the run of digits and slashes at q
RECURSIVE DateTokenEnd(_, _)
DateTokenEnd(b, q) ==
    IF CharAt(b, q) \in Digits \cup {"/"} THEN DateTokenEnd(b, q + 1) ELSE q

DateToken(b, q) == SubSeq(b, q, DateTokenEnd(b, q) - 1)

\* C4: in a Block that yields a Record, Date is the token after Date: when the
\* token is exactly dddd/dd/dd, and "" for a token of any other shape and for
\* a Block without the marker.
C4_DateIsExactToken ==
    Emitted =>
        IF ~Occurs(block, DateMarker) THEN LastRecord.Date = <<>>
        ELSE LET e   == SkipSpaces(block, FirstOcc(block, DateMarker) + Len(DateMarker))
                 tok == DateToken(block, e)
             IN  LastRecord.Date = IF Len(tok) = 10 /\ DateShapeAt(tok, 1) THEN tok ELSE <<>>

(* ------------------------------- C5 ----------------------------------- *)

OptionalFields == {"RenderingProvider", "Date", "SessionTime"}

MarkerOf(f) ==
    CASE f = "RenderingProvider" -> ProviderMarker
      [] f = "Date"              -> DateMarker
      [] f = "SessionTime"       -> SessionMarker

\* the line of a field that starts at its marker stands alone: the marker
\* occurs once, at the start of a line that holds no other marker
OwnLine(b, f) ==
    /\ Count(b, MarkerOf(f)) = 1
    /\ CharAt(b, FirstOcc(b, MarkerOf(f)) - 1) = "\n"
    /\ \A g \in OptionalFields \ {f} :
           ~Occurs(RestOfLine(b, FirstOcc(b, MarkerOf(f))), MarkerOf(g))

\* the block without the line of field f
WithoutLine(b, f) ==
    LET s == FirstOcc(b, MarkerOf(f))
    IN  strip(SubSeq(b, 1, s - 1) \o SubSeq(b, SkipUntil(b, s, {"\n"}) + 1, Len(b)))

\* C5: in a Block with a valid Client, an optional field whose marker is
\* absent is "" in the Record, which is emitted all the same; and taking the
\* line of an optional field away changes neither the Client nor another field.
C5_AbsentFieldChangesNothingElse ==
    Emitted =>
        \A f \in OptionalFields :
            /\ ~Occurs(block, MarkerOf(f)) => LastRecord[f] = <<>>
            /\ OwnLine(block, f) =>
                   LET b2 == WithoutLine(block, f)
                       r2 == Record(b2, ClientOf(b2))
                   IN  /\ r2.Client = LastRecord.Client
                       /\ r2[f] = <<>>
                       /\ \A g \in OptionalFields \ {f} : r2[g] = LastRecord[g]

(* ------------------------------- C6 ----------------------------------- *)

\* block i yields a record
YieldsRecord(i) == strip(blocks[i]) # <<>> /\ ClientOf(strip(blocks[i])) # <<>>

\* the k-th block that yields a record
KthYielding(k) ==
    CHOOSE i \in 1..Len(blocks) :
        YieldsRecord(i) /\ Cardinality({j \in 1..i : YieldsRecord(j)}) = k

\* C6: the records are those of the blocks that yield one, one each, in the
\* order of the blocks, with the fields of their own block; nothing is merged
\* or dropped as a duplicate.
C6_OneRecordPerBlockInOrder ==
    pc \in {"loop", "done"} =>
        /\ Len(results) = Cardinality({i \in 1..(idx - 1) : YieldsRecord(i)})
        /\ \A k \in 1..Len(results) :
               LET b == strip(blocks[KthYielding(k)])
               IN  /\ results[k].Client = ClientOf(b)
                   /\ results[k].RenderingProvider = ProviderOf(b)
                   /\ results[k].Date = DateOf(b)
                   /\ results[k].SessionTime = SessionTimeOf(b)

\* two blocks with the same client and different dates gave two records
C6_Witness ==
    /\ pc = "done"
    /\ Len(results) = 2
    /\ results[1].Client = results[2].Client
    /\ results[1].Date # <<>>
    /\ results[2].Date = <<>>

(* ------------------------------- C7 ----------------------------------- *)

\* C7: there are at most as many records as occurrences of Client: in the
\* text; the text before the first occurrence yields none, every block at most
\* one, and a text without the marker none at all.
C7_AtMostOneRecordPerMarker ==
    pc \in {"loop", "done"} =>
        /\ Len(results) <= Count(text, ClientMarker)
        /\ idx >= 2 => Len(results) <= idx - 2
        /\ Count(text, ClientMarker) = 0 => results = <<>>

\* a text with a preamble, a block that yields a record and one that does not
C7_Witness ==
    /\ pc = "done"
    /\ strip(blocks[1]) # <<>>
    /\ Len(results) >= 1
    /\ Len(results) < Count(text, ClientMarker)

(* ------------------------------- C8 ----------------------------------- *)

\* t is a block that starts with its one marker and yields one record alone
ValidAlone(t) ==
    /\ StartsWithAt(t, 1, ClientMarker)
    /\ Count(t, ClientMarker) = 1
    /\ Len(parse_notes(t)) = 1

\* the text is A followed by B, cut before position p
CutsIntoValidBlocks(p) ==
    /\ ValidAlone(SubSeq(text, 1, p - 1))
    /\ ValidAlone(SubSeq(text, p, Len(text)))

\* C8: when the text is two blocks that are each valid alone, its records are
\* the record of the first followed by the record of the second.
C8_SplittingStability ==
    pc = "done" =>
        \A p \in 2..Len(text) :
            CutsIntoValidBlocks(p) =>
                results = parse_notes(SubSeq(text, 1, p - 1))
                              \o parse_notes(SubSeq(text, p, Len(text)))

\* such a text, whose two blocks give different records
C8_Witness ==
    /\ pc = "done"
    /\ \E p \in 2..Len(text) : CutsIntoValidBlocks(p)
    /\ Len(results) = 2
    /\ results[1] # results[2]

(* ------------------------------- C9 ----------------------------------- *)

\* C9: every record's Client is non-empty, has no whitespace at either end and
\* holds no newline and no comma.
C9_ClientIsTrimmedAndNonEmpty ==
    pc \in {"loop", "done"} =>
        \A k \in 1..Len(results) :
            LET c == results[k].Client
            IN  /\ c # <<>>
                /\ c[1] \notin Whitespace
                /\ c[Len(c)] \notin Whitespace
                /\ \A j \in 1..Len(c) : c[j] \notin {"\n", ","}

\* two records, one of a name that was cut at a comma and had whitespace to trim
C9_Witness ==
    /\ pc = "done"
    /\ Len(results) = 2
    /\ \E i \in 1..Len(blocks) :
           LET b == strip(blocks[i])
               m == re_search("Client", b)
           IN  /\ m.ok
               /\ CharAt(b, m.to) = ","
               /\ ClientOf(b) # <<>>
               /\ group(b, m) # ClientOf(b)

(* ------------------------------- C10 ---------------------------------- *)

\* "--- Page"
SeparatorText == <<"-", "-", "-", " ", "P", "a", "g", "e">>

\* C10: a page separator line put at a line boundary of the text leaves the
\* records as they are, and no field of a record holds separator text.
C10_SeparatorLinesAreIgnored ==
    pc = "done" =>
        /\ \A p \in LineStarts(text) :
               parse_notes(InsertAt(text, p, PageHeader(0))) = results
        /\ \A k \in 1..Len(results) :
               /\ ~Occurs(results[k].Client, SeparatorText)
               /\ ~Occurs(results[k].RenderingProvider, SeparatorText)
               /\ ~Occurs(results[k].Date, SeparatorText)
               /\ ~Occurs(results[k].SessionTime, SeparatorText)

====
